---- MODULE Spec2Model ----
(***************************************************************************)
(* Model of 0x00-personal_data/filtered_logger.py: filter_datum (regex     *)
(* redaction of `field=value;` segments), RedactingFormatter.format,       *)
(* get_logger and get_db.                                                  *)
(*                                                                         *)
(* A Python str is modelled as a sequence of one-character strings, so     *)
(* that the regular expression of filter_datum is computed character by    *)
(* character the way re.sub scans it.                                      *)
(***************************************************************************)
EXTENDS Integers, Sequences, FiniteSets, TLC

(***************************************************************************)
(* Bounds of the exhaustively enumerated inputs.                           *)
(***************************************************************************)
MaxLen == 4
MaxFields == 2

(***************************************************************************)
(* String literals of the source and of the specification's examples.      *)
(***************************************************************************)
F_name == <<"n", "a", "m", "e">>
F_email == <<"e", "m", "a", "i", "l">>
F_phone == <<"p", "h", "o", "n", "e">>
F_ssn == <<"s", "s", "n">>
F_password == <<"p", "a", "s", "s", "w", "o", "r", "d">>
F_pass == <<"p", "a", "s", "s">>
M_contact == <<"n", "a", "m", "e", "=", "A", "l", "i", "c", "e", ";", "e", "m", "a", "i", "l", "=", "a", "@", "x", ".", "c", "o", "m", ";", "p", "h", "o", "n", "e", "=", "5", "5", "5", ";">>
M_contact_red == <<"n", "a", "m", "e", "=", "*", "*", "*", ";", "e", "m", "a", "i", "l", "=", "*", "*", "*", ";", "p", "h", "o", "n", "e", "=", "*", "*", "*", ";">>
M_two_pw == <<"p", "a", "s", "s", "w", "o", "r", "d", "=", "a", "b", "c", ";", "p", "a", "s", "s", "w", "o", "r", "d", "=", "d", "e", "f", ";">>
M_two_pw_red == <<"p", "a", "s", "s", "w", "o", "r", "d", "=", "*", "*", "*", ";", "p", "a", "s", "s", "w", "o", "r", "d", "=", "*", "*", "*", ";">>
M_pw == <<"p", "a", "s", "s", "w", "o", "r", "d", "=", "x", "y", "z", ";">>
M_pw_red == <<"p", "a", "s", "s", "w", "o", "r", "d", "=", "*", "*", "*", ";">>
M_username == <<"u", "s", "e", "r", "n", "a", "m", "e", "=", "b", "o", "b", ";">>
M_pw_nl == <<"p", "a", "s", "s", "w", "o", "r", "d", "=", "a", "\n", "b", ";">>
M_nested == <<"a", "=", "a", "b", "=", "b", ";", "a", "b", "=", "a", "=", ";">>
M_mixed == <<"a", "=", "\n", "b", "=", "a", ";", ";", "b", "a", "=", "b", ";", "b", "=">>
HOLBERTON == <<"[", "H", "O", "L", "B", "E", "R", "T", "O", "N", "]", " ">>
N_user_data == <<"u", "s", "e", "r", "_", "d", "a", "t", "a">>
N_shaped == <<"n", "a", "m", "e", "=", "x", ";">>
L_INFO == <<"I", "N", "F", "O">>
L_WARNING == <<"W", "A", "R", "N", "I", "N", "G">>
T_short == <<"0", "7", ":", "5", "8">>
T_long == <<"2", "0", "2", "6", "-", "1", "1", "-", "0", "4", " ", "0", "7", ":", "5", "8", ":", "1", "1", ",", "0", "4", "2">>
M_name_bob == <<"n", "a", "m", "e", "=", "b", "o", "b", ";">>
M_hello == <<"h", "e", "l", "l", "o">>
M_fmt == <<"n", "a", "m", "e", "=", "%", "s", ";">>
M_pct == <<"%", "s", ";", "%", "s">>
M_pp == <<"%", "s", "%", "%", "s">>
A_bob == <<"b", "o", "b">>
A_pct == <<"%", "s">>
A_a == <<"a">>

PII_FIELDS == <<F_name, F_email, F_phone, F_ssn, F_password>>
REDACTION == <<"*", "*", "*">>
SEPARATOR == <<";">>

\* bounds of the formatter, logger and database scenarios
MaxFormats == 2
MaxGetLogger == 3
MaxInfo == 2

VARIABLES
    \* one call of filter_datum and a second call on its output
    fields, redaction, message, out, out2, pc,
    \* a LogRecord and the format calls made on it
    record, formatted,
    \* the `user_data` logger and the stream of its handlers
    level, propagate, handlers, stream, errors, infos,
    \* os.environ, the calls of mysql.connector.connect, get_db's outcome
    environ, connects, db

fvars == <<fields, redaction, message, out, out2, pc>>
rvars == <<record, formatted>>
lvars == <<level, propagate, handlers, stream, errors, infos>>
dvars == <<environ, connects, db>>
vars == <<fvars, rvars, lvars, dvars>>

(***************************************************************************)
(* re.sub(f'{field}=.*?{separator}', f'{field}={redaction}{separator}',     *)
(* message) for a field name and a separator free of regex metacharacters. *)
(***************************************************************************)

\* the literal p occurs in s at index i
LiteralAt(s, i, p) ==
    /\ i + Len(p) - 1 <= Len(s)
    /\ \A k \in 1..Len(p) : s[i + k - 1] = p[k]

\* `.*?{separator}` from index j: the index of the last character of the
\* shortest match, 0 when there is none.  `.` matches any character but a
\* line break (no re.DOTALL), and the lazy quantifier tries the separator
\* before it consumes one more character.
RECURSIVE LazyValueGreedy(_, _, _)
LazyValueGreedy(s, j, separator) ==
    IF j > Len(s) THEN 0
    ELSE LET further == IF s[j] = "\n" THEN 0
                        ELSE LazyValueGreedy(s, j + 1, separator)
         IN  IF further # 0 THEN further
             ELSE IF LiteralAt(s, j, separator) THEN j + Len(separator) - 1
             ELSE 0

RECURSIVE LazyValue(_, _, _)
LazyValue(s, j, separator) ==
    IF j > Len(s) THEN 0
    ELSE IF LiteralAt(s, j, separator) THEN j + Len(separator) - 1
    ELSE IF s[j] = "\n" THEN 0
    ELSE LazyValue(s, j + 1, separator)

\* the pattern f'{field}=.*?{separator}' tried at index i: index of the last
\* matched character, 0 when the pattern fails there
MatchAt(s, i, field, separator) ==
    IF LiteralAt(s, i, field \o <<"=">>)
    THEN LazyValue(s, i + Len(field) + 1, separator)
    ELSE 0

\* the replacement template f'{field}={redaction}{separator}'
ReplacementNoSeparator(field, redact, separator) ==
    field \o <<"=">> \o redact

Replacement(field, redact, separator) ==
    field \o <<"=">> \o redact \o separator

\* re.sub scanning from index i: leftmost matches, not overlapping, every
\* one replaced; unmatched characters are copied
RECURSIVE SubFrom(_, _, _, _, _)
SubFrom(s, i, field, redact, separator) ==
    IF i > Len(s) THEN <<>>
    ELSE LET e == MatchAt(s, i, field, separator)
         IN  IF e # 0
             THEN Replacement(field, redact, separator)
                      \o SubFrom(s, e + 1, field, redact, separator)
             ELSE <<s[i]>> \o SubFrom(s, i + 1, field, redact, separator)

re_sub(field, redact, separator, s) == SubFrom(s, 1, field, redact, separator)

\* a slip of the loop: every substitution is made on the original message,
\* so only the last field's substitution survives
filter_datum_last_only(fs, redact, msg, separator) ==
    IF fs = <<>> THEN msg
    ELSE re_sub(fs[Len(fs)], redact, separator, msg)

\* filter_datum: one re.sub per field, in list order, each on the result of
\* the one before
RECURSIVE filter_datum(_, _, _, _)
filter_datum(fs, redact, msg, separator) ==
    IF fs = <<>> THEN msg
    ELSE filter_datum(Tail(fs), redact,
                      re_sub(Head(fs), redact, separator, msg), separator)

(***************************************************************************)
(* The parts of the state a scenario does not use stay as they are here.   *)
(***************************************************************************)
NoRecord ==
    [name |-> <<>>, levelname |-> <<>>, asctime |-> <<>>, msg |-> <<>>,
     args |-> <<>>]
Unset == "unset"
EnvNames ==
    {"PERSONAL_DATA_DB_USERNAME", "PERSONAL_DATA_DB_PASSWORD",
     "PERSONAL_DATA_DB_HOST", "PERSONAL_DATA_DB_NAME"}

FilterIdle ==
    /\ fields = <<>>
    /\ redaction = REDACTION
    /\ message = <<>>
    /\ out = <<>>
    /\ out2 = <<>>
    /\ pc = "idle"

FormatterIdle ==
    /\ record = NoRecord
    /\ formatted = <<>>

\* logging.getLogger("user_data") before get_logger has configured it: level
\* NOTSET, propagating, no handler
LoggerIdle ==
    /\ level = "NOTSET"
    /\ propagate = TRUE
    /\ handlers = <<>>
    /\ stream = <<>>
    /\ errors = 0
    /\ infos = <<>>

DbIdle ==
    /\ environ = [v \in EnvNames |-> Unset]
    /\ connects = <<>>
    /\ db = "none"

(***************************************************************************)
(* Inputs of filter_datum: every message up to MaxLen characters over a    *)
(* small alphabet with every list of up to MaxFields distinct field names, *)
(* and the examples of the specification.                                  *)
(***************************************************************************)
Alphabet == {"a", "b", "=", ";", "\n"}
FieldNames == {<<"a">>, <<"b">>, <<"a", "b">>}
Tokens == {REDACTION, <<>>, <<"a">>, <<"\n">>}

Messages == UNION {[1..n -> Alphabet] : n \in 0..MaxLen}

Distinct(fs) == \A i, j \in 1..Len(fs) : i # j => fs[i] # fs[j]
FieldLists ==
    {fs \in UNION {[1..n -> FieldNames] : n \in 0..MaxFields} : Distinct(fs)}

ExampleCalls ==
    { [f |-> <<F_name, F_email, F_phone>>, m |-> M_contact],
      [f |-> <<F_password>>, m |-> M_two_pw],
      [f |-> <<F_pass, F_password>>, m |-> M_pw],
      [f |-> <<F_password, F_pass>>, m |-> M_pw],
      [f |-> <<F_name>>, m |-> M_username],
      [f |-> <<F_password>>, m |-> M_pw_nl],
      [f |-> <<<<"a">>, <<"a", "b">>>>, m |-> M_nested],
      [f |-> <<<<"a", "b">>, <<"a">>>>, m |-> M_nested],
      [f |-> <<<<"a">>, <<"b">>>>, m |-> M_mixed],
      [f |-> PII_FIELDS, m |-> M_contact] }

InitFilter ==
    /\ FormatterIdle /\ LoggerIdle /\ DbIdle
    /\ \/ /\ message \in Messages
          /\ fields \in FieldLists
          /\ redaction \in Tokens
       \/ \E c \in ExampleCalls :
             /\ message = c.m
             /\ fields = c.f
             /\ redaction = REDACTION
    /\ out = <<>>
    /\ out2 = <<>>
    /\ pc = "input"

\* out = filter_datum(fields, redaction, message, ";")
Call ==
    /\ pc = "input"
    /\ out' = filter_datum(fields, redaction, message, SEPARATOR)
    /\ pc' = "done"
    /\ UNCHANGED <<fields, redaction, message, out2, rvars, lvars, dvars>>

\* out2 = filter_datum(fields, redaction, out, ";"): the output filtered again
CallAgain ==
    /\ pc = "done"
    /\ out2' = filter_datum(fields, redaction, out, SEPARATOR)
    /\ pc' = "twice"
    /\ UNCHANGED <<fields, redaction, message, out, rvars, lvars, dvars>>

NextFilter == Call \/ CallAgain

Spec == InitFilter /\ [][NextFilter]_vars

(***************************************************************************)
(* RedactingFormatter.format.  The record's msg and args are strings; the  *)
(* modelled messages use the conversions %s and %% only.                   *)
(***************************************************************************)

\* msg % args from index i of msg: %s takes the next argument, %% is a
\* percent sign, an argument left over or missing raises TypeError and a
\* conversion cut short raises ValueError (ok = FALSE)
RECURSIVE PercentFrom(_, _, _)
PercentFrom(s, i, args) ==
    IF i > Len(s) THEN [ok |-> args = <<>>, text |-> <<>>]
    ELSE IF s[i] # "%"
    THEN LET r == PercentFrom(s, i + 1, args)
         IN  [ok |-> r.ok, text |-> <<s[i]>> \o r.text]
    ELSE IF i = Len(s) THEN [ok |-> FALSE, text |-> <<>>]
    ELSE IF s[i + 1] = "%"
    THEN LET r == PercentFrom(s, i + 2, args)
         IN  [ok |-> r.ok, text |-> <<"%">> \o r.text]
    ELSE IF s[i + 1] = "s" /\ args # <<>>
    THEN LET r == PercentFrom(s, i + 2, Tail(args))
         IN  [ok |-> r.ok, text |-> Head(args) \o r.text]
    ELSE [ok |-> FALSE, text |-> <<>>]

\* LogRecord.getMessage(): msg % args when there are args, msg otherwise
getMessage(rec) ==
    IF rec.args = <<>> THEN [ok |-> TRUE, text |-> rec.msg]
    ELSE PercentFrom(rec.msg, 1, rec.args)

\* %(asctime)-15s: left-justified in a width of 15
RECURSIVE LeftJustify(_, _)
LeftJustify(s, width) ==
    IF Len(s) >= width THEN s ELSE LeftJustify(s \o <<" ">>, width)

AsctimeWidth == 15

\* FORMAT up to and without %(message)s
Prefix(rec) ==
    HOLBERTON \o rec.name \o <<" ">> \o rec.levelname \o <<" ">>
        \o LeftJustify(rec.asctime, AsctimeWidth) \o <<":", " ">>

\* logging.Formatter(FORMAT).format(record): the record's message is
\* rendered by getMessage() and put after the prefix
Formatter_format(rec) ==
    LET m == getMessage(rec)
    IN  [raised |-> ~m.ok,
         line |-> IF m.ok THEN Prefix(rec) \o m.text ELSE <<>>,
         record |-> rec]

\* the other call order: the prefix is put first and the whole line is
\* filtered
format_prefix_then_redact(fs, rec) ==
    LET r == Formatter_format(rec)
    IN  [raised |-> r.raised,
         line |-> filter_datum(fs, REDACTION, r.line, SEPARATOR),
         record |-> rec]

\* RedactingFormatter(fs).format(rec): record.msg becomes the filtered
\* getMessage(), then the base class formats the record.  The result holds
\* the record as the call leaves it.
format(fs, rec) ==
    LET m == getMessage(rec)
    IN  IF ~m.ok THEN [raised |-> TRUE, line |-> <<>>, record |-> rec]
        ELSE Formatter_format(
                 [rec EXCEPT !.msg = filter_datum(fs, REDACTION, m.text,
                                                  SEPARATOR)])

LoggedCalls ==
    { [msg |-> M_name_bob, args |-> <<>>],
      [msg |-> M_contact, args |-> <<>>],
      [msg |-> M_username, args |-> <<>>],
      [msg |-> M_pw_nl, args |-> <<>>],
      [msg |-> M_hello, args |-> <<>>],
      [msg |-> M_fmt, args |-> <<A_bob>>],
      [msg |-> M_pct, args |-> <<A_pct, A_pct>>],
      [msg |-> M_pp, args |-> <<A_a>>] }

Records ==
    { [name |-> n, levelname |-> l, asctime |-> t, msg |-> c.msg,
       args |-> c.args] :
          n \in {N_user_data, N_shaped}, l \in {L_INFO, L_WARNING},
          t \in {T_short, T_long}, c \in LoggedCalls }

FormatterFields == {PII_FIELDS, <<F_name>>}

InitFormatter ==
    /\ FilterIdle /\ LoggerIdle /\ DbIdle
    /\ record \in Records
    /\ formatted = <<>>

\* RedactingFormatter(fs).format(record), by a handler holding the record
Format ==
    /\ Len(formatted) < MaxFormats
    /\ \E fs \in FormatterFields :
          LET r == format(fs, record)
          IN  /\ formatted' = Append(formatted,
                                  [fields |-> fs, before |-> record,
                                   raised |-> r.raised, line |-> r.line])
              /\ record' = r.record
    /\ UNCHANGED <<fvars, lvars, dvars>>

NextFormatter == Format

SpecFormatter == InitFormatter /\ [][NextFormatter]_vars

(***************************************************************************)
(* get_logger and the `user_data` logger.  logging.getLogger returns the   *)
(* same Logger object on every call.                                       *)
(***************************************************************************)

\* logging.StreamHandler() with RedactingFormatter(fields=list(PII_FIELDS))
NewHandler ==
    [class |-> "StreamHandler", formatter |-> "RedactingFormatter",
     fields |-> PII_FIELDS]

\* Logger.addHandler adds a handler object that is not in the list yet;
\* every StreamHandler() is a new object
addHandler(hs, h) == Append(hs, h)

InitLogger ==
    /\ FilterIdle /\ FormatterIdle /\ DbIdle
    /\ LoggerIdle

get_logger ==
    /\ Len(handlers) < MaxGetLogger
    /\ level' = "INFO"
    /\ propagate' = FALSE
    /\ handlers' = addHandler(handlers, NewHandler)
    /\ UNCHANGED <<stream, errors, infos, fvars, rvars, dvars>>

\* Logger.callHandlers: every handler in turn formats the one record object
\* and writes the line and its terminator; an exception of format() goes
\* to Handler.handleError and nothing is written
RECURSIVE callHandlers(_, _, _)
callHandlers(hs, rec, call) ==
    IF hs = <<>> THEN [written |-> <<>>, errors |-> 0]
    ELSE LET r == format(Head(hs).fields, rec)
             rest == callHandlers(Tail(hs), r.record, call)
         IN  IF r.raised
             THEN [written |-> rest.written, errors |-> rest.errors + 1]
             ELSE [written |-> <<[call |-> call, text |-> r.line \o <<"\n">>]>>
                                   \o rest.written,
                   errors |-> rest.errors]

\* logger.info(msg, *args) on the logger get_logger returned
info ==
    /\ handlers # <<>>
    /\ level = "INFO"
    /\ Len(infos) < MaxInfo
    /\ \E c \in LoggedCalls :
          LET rec == [name |-> N_user_data, levelname |-> L_INFO,
                      asctime |-> T_long, msg |-> c.msg, args |-> c.args]
              r == callHandlers(handlers, rec, Len(infos) + 1)
          IN  /\ stream' = stream \o r.written
              /\ errors' = errors + r.errors
              /\ infos' = Append(infos, c)
    /\ UNCHANGED <<level, propagate, handlers, fvars, rvars, dvars>>

NextLogger == get_logger \/ info

SpecLogger == InitLogger /\ [][NextLogger]_vars

(***************************************************************************)
(* get_db.  mysql.connector.connect is outside the program: it returns a   *)
(* connection or raises.                                                   *)
(***************************************************************************)
None == "None"

\* os.environ.get(name, default)
environ_get(name, default) ==
    IF environ[name] = Unset THEN default ELSE environ[name]

EnvValues ==
    [PERSONAL_DATA_DB_USERNAME |-> {Unset, "root", "alice"},
     PERSONAL_DATA_DB_PASSWORD |-> {Unset, "", "pw"},
     PERSONAL_DATA_DB_HOST |-> {Unset, "localhost", "db1"},
     PERSONAL_DATA_DB_NAME |-> {Unset, "my_db"}]

InitDb ==
    /\ FilterIdle /\ FormatterIdle /\ LoggerIdle
    /\ environ \in {e \in [EnvNames -> UNION {EnvValues[n] : n \in EnvNames}] :
                       \A n \in EnvNames : e[n] \in EnvValues[n]}
    /\ connects = <<>>
    /\ db = "none"

get_db ==
    /\ db = "none"
    /\ connects' = Append(connects,
           [user |-> environ_get("PERSONAL_DATA_DB_USERNAME", "root"),
            password |-> environ_get("PERSONAL_DATA_DB_PASSWORD", ""),
            host |-> environ_get("PERSONAL_DATA_DB_HOST", "localhost"),
            database |-> environ_get("PERSONAL_DATA_DB_NAME", None)])
    /\ db' \in {"connected", "error"}
    /\ UNCHANGED <<environ, fvars, rvars, lvars>>

NextDb == get_db

SpecDb == InitDb /\ [][NextDb]_vars

(***************************************************************************)
(* Vocabulary of the claims about filter_datum.                            *)
(***************************************************************************)
Range(f) == {f[i] : i \in DOMAIN f}

\* number of separators, i.e. of `;`-delimited segments
CountSep(s) == Cardinality({i \in 1..Len(s) : s[i] = ";"})

\* index of the first character c of s at or after i, 0 when there is none
RECURSIVE IndexFrom(_, _, _)
IndexFrom(s, i, c) ==
    IF i > Len(s) THEN 0
    ELSE IF s[i] = c THEN i
    ELSE IndexFrom(s, i + 1, c)

\* s[i..] is a concatenation of well-formed segments `field=value;`: the field
\* name is not empty, and neither it nor the value holds a separator or a
\* line break
RECURSIVE WellFormedFrom(_, _)
WellFormedFrom(s, i) ==
    IF i > Len(s) THEN TRUE
    ELSE LET e == IndexFrom(s, i, ";")
             q == IndexFrom(s, i, "=")
         IN  /\ e # 0
             /\ q # 0
             /\ i < q
             /\ q < e
             /\ \A k \in i..e : s[k] # "\n"
             /\ WellFormedFrom(s, e + 1)

WellFormed(s) == WellFormedFrom(s, 1)

\* the field names of the segments of a well-formed message
RECURSIVE SegmentNamesFrom(_, _)
SegmentNamesFrom(s, i) ==
    IF i > Len(s) THEN {}
    ELSE {SubSeq(s, i, IndexFrom(s, i, "=") - 1)}
             \cup SegmentNamesFrom(s, IndexFrom(s, i, ";") + 1)

SegmentNames(s) == SegmentNamesFrom(s, 1)

\* a well-formed message with the value of every segment whose field name is
\* in fs replaced by the token, every other segment as it is
RECURSIVE RedactedFrom(_, _, _, _)
RedactedFrom(s, i, fs, token) ==
    IF i > Len(s) THEN <<>>
    ELSE LET e == IndexFrom(s, i, ";")
             name == SubSeq(s, i, IndexFrom(s, i, "=") - 1)
         IN  (IF name \in Range(fs)
              THEN name \o <<"=">> \o token \o <<";">>
              ELSE SubSeq(s, i, e))
                 \o RedactedFrom(s, e + 1, fs, token)

Redacted(s, fs, token) == RedactedFrom(s, 1, fs, token)

\* f is a proper prefix of g
ProperPrefix(f, g) == Len(f) < Len(g) /\ SubSeq(g, 1, Len(f)) = f

HasPrefixPair(fs) == \E i, j \in 1..Len(fs) : ProperPrefix(fs[i], fs[j])

\* the lists that hold the fields of fs in another order
Reorderings(fs) ==
    {p \in [1..Len(fs) -> Range(fs)] : Range(p) = Range(fs)}

\* C1: for a message of well-formed `field=value;` segments, filter_datum
\* with token *** returns the message in which each segment of a configured
\* field has its value replaced by ***, each occurrence on its own, and
\* nothing else
C1_SegmentwiseRedaction ==
    (pc = "done" /\ redaction = REDACTION /\ WellFormed(message))
        => out = Redacted(message, fields, REDACTION)

\* the segments of a well-formed message, in order
RECURSIVE SegmentsFrom(_, _)
SegmentsFrom(s, i) ==
    IF i > Len(s) THEN <<>>
    ELSE LET e == IndexFrom(s, i, ";")
             q == IndexFrom(s, i, "=")
         IN  <<[name |-> SubSeq(s, i, q - 1), value |-> SubSeq(s, q + 1, e - 1)]>>
                 \o SegmentsFrom(s, e + 1)

\* C1, the part the code satisfies: the two examples come out as stated, and
\* on every well-formed message the segments keep their number and names and
\* every segment of a configured field has exactly the token as its value
C1_ConfiguredSegmentsRedacted ==
    (pc = "done" /\ redaction = REDACTION /\ WellFormed(message))
        => /\ (message = M_contact /\ fields = <<F_name, F_email, F_phone>>)
                  => out = M_contact_red
           /\ (message = M_two_pw /\ fields = <<F_password>>)
                  => out = M_two_pw_red
           /\ WellFormed(out)
           /\ LET before == SegmentsFrom(message, 1)
                  after == SegmentsFrom(out, 1)
              IN  /\ Len(after) = Len(before)
                  /\ \A k \in 1..Len(before) :
                         /\ after[k].name = before[k].name
                         /\ before[k].name \in Range(fields)
                                => after[k].value = REDACTION

C1_ExamplesReached ==
    /\ pc = "done"
    /\ message = M_two_pw
    /\ out = M_two_pw_red

\* C2: a message in which no segment's field name is a configured field is
\* returned unchanged
C2_OnlyConfiguredFields ==
    (pc = "done" /\ redaction = REDACTION /\ WellFormed(message)
        /\ SegmentNames(message) \cap Range(fields) = {})
        => out = message

\* C3: with token *** and separator `;` the output of filter_datum has as
\* many `;`-delimited segments as the input, whatever the input
C3_SegmentCount ==
    (pc # "input" /\ redaction = REDACTION)
        => CountSep(out) = CountSep(message)

C3_Witness ==
    /\ pc = "done"
    /\ redaction = REDACTION
    /\ ~WellFormed(message)
    /\ CountSep(message) >= 2
    /\ out # message

\* C4: filtering the output of filter_datum again, with the same fields,
\* token and separator, returns it unchanged
C4_Idempotent == pc = "twice" => out2 = out

C4_Witness ==
    /\ pc = "twice"
    /\ out # message
    /\ out2 = out
    /\ Len(fields) = 2

\* C6: with fields pass and password, in either order, password=xyz; becomes
\* password=***;, and when one configured field name is a prefix of another
\* the result is the same for every order of the field list
C6_OrderIndependent ==
    (pc # "input" /\ redaction = REDACTION)
        => /\ (message = M_pw /\ Range(fields) = {F_pass, F_password})
                  => out = M_pw_red
           /\ HasPrefixPair(fields)
                  => \A p \in Reorderings(fields) :
                         filter_datum(p, redaction, message, SEPARATOR) = out

C6_Witness ==
    /\ pc = "done"
    /\ message = M_pw
    /\ fields = <<F_pass, F_password>>
    /\ out = M_pw_red

\* C8: a segment `field=value;` of a configured field has its whole value
\* replaced by the token whatever characters other than the separator the
\* value is made of, a line break included
C8_AnyValueRedacted ==
    (pc = "done" /\ redaction = REDACTION)
        => \A f \in Range(fields) :
               (/\ LiteralAt(message, 1, f \o <<"=">>)
                /\ IndexFrom(message, 1, ";") = Len(message))
                   => out = f \o <<"=">> \o REDACTION \o <<";">>

\* C8 without the line break: holds
C8_ValueWithoutLineBreak ==
    (pc = "done" /\ redaction = REDACTION)
        => \A f \in Range(fields) :
               (/\ LiteralAt(message, 1, f \o <<"=">>)
                /\ IndexFrom(message, 1, ";") = Len(message)
                /\ IndexFrom(message, 1, "\n") = 0)
                   => out = f \o <<"=">> \o REDACTION \o <<";">>

(***************************************************************************)
(* Claims about RedactingFormatter.format.                                 *)
(***************************************************************************)

\* C5: the line format() returns starts with the prefix (logger name,
\* level, timestamp) exactly as the base formatter renders it, also when
\* the logger name has the shape `field=value;` of a configured field, and
\* continues with the message passed through filter_datum
C5_PrefixNotRedacted ==
    \A k \in 1..Len(formatted) :
        LET c == formatted[k]
            m == getMessage(c.before)
        IN  ~c.raised =>
                /\ SubSeq(c.line, 1, Len(Prefix(c.before))) = Prefix(c.before)
                /\ c.before.args = <<>> =>
                       c.line = Prefix(c.before)
                                    \o filter_datum(c.fields, REDACTION,
                                                    m.text, SEPARATOR)

C5_Witness ==
    \E k \in 1..Len(formatted) :
        LET c == formatted[k]
        IN  /\ ~c.raised
            /\ c.before.name = N_shaped
            /\ c.before.msg = M_name_bob
            /\ c.line # Prefix(c.before) \o M_name_bob

\* C9: format() leaves the record's message and arguments as they were, and
\* formatting the same record twice succeeds and gives the same line
C9_RecordUnchanged ==
    /\ \A k \in 1..Len(formatted) :
           LET after == IF k < Len(formatted) THEN formatted[k + 1].before
                        ELSE record
           IN  /\ after.msg = formatted[k].before.msg
               /\ after.args = formatted[k].before.args
    /\ \A j, k \in 1..Len(formatted) :
           formatted[j].fields = formatted[k].fields
               => /\ ~formatted[k].raised
                  /\ formatted[j].line = formatted[k].line

(***************************************************************************)
(* Claims about get_db and get_logger.                                     *)
(***************************************************************************)

\* C7: without PERSONAL_DATA_DB_NAME get_db ends in an error and attempts no
\* connection; with it, one connection is attempted, the username
\* defaulting to root, the password to the empty string and the host to
\* localhost
C7_FailFast ==
    db # "none" =>
        IF environ["PERSONAL_DATA_DB_NAME"] = Unset
        THEN connects = <<>> /\ db = "error"
        ELSE connects =
                 <<[user |-> environ_get("PERSONAL_DATA_DB_USERNAME", "root"),
                    password |-> environ_get("PERSONAL_DATA_DB_PASSWORD", ""),
                    host |-> environ_get("PERSONAL_DATA_DB_HOST", "localhost"),
                    database |-> environ["PERSONAL_DATA_DB_NAME"]]>>

\* C7, the half about the defaults alone: holds
C7_Defaults ==
    db # "none" =>
        /\ Len(connects) = 1
        /\ environ["PERSONAL_DATA_DB_USERNAME"] = Unset
               => connects[1].user = "root"
        /\ environ["PERSONAL_DATA_DB_PASSWORD"] = Unset
               => connects[1].password = ""
        /\ environ["PERSONAL_DATA_DB_HOST"] = Unset
               => connects[1].host = "localhost"

\* lines the n-th call of logger.info wrote
WrittenBy(n) == {i \in 1..Len(stream) : stream[i].call = n}

\* C10: after one or more calls of get_logger the `user_data` logger has
\* level INFO, does not propagate and has exactly one StreamHandler with a
\* RedactingFormatter over PII_FIELDS, and a logger.info call (of a message
\* without arguments) writes exactly one line
C10_OneHandler ==
    handlers # <<>> =>
        /\ level = "INFO"
        /\ ~propagate
        /\ handlers = <<NewHandler>>
        /\ \A n \in 1..Len(infos) :
               infos[n].args = <<>> => Cardinality(WrittenBy(n)) = 1

====
